---------------------------- MODULE Spec2Model ----------------------------
(***************************************************************************)
(* A model of cvec.h, the macro-based growable array of natediddy/cvec.    *)
(*                                                                         *)
(* One vector instance is modelled.  Its struct fields are the record v;   *)
(* the heap block that v.data points to is v.block (a sequence of slots,   *)
(* one per allocated element).  Every public macro is one action.  The     *)
(* outcome of each realloc call, the copy order of each overlapping        *)
(* memcpy and the value of each uninitialized read are inputs chosen       *)
(* nondeterministically.  Variables dcount, last, pushed, onlyPushBack and  *)
(* nextItem are history variables used only by the properties.             *)
(***************************************************************************)
EXTENDS Integers, Sequences, FiniteSets, TLC

VARIABLES v, pc, nextItem, dcount, last, pushed, onlyPushBack

vars == <<v, pc, nextItem, dcount, last, pushed, onlyPushBack>>

---------------------------------------------------------------------------
(* Bounds of the model *)

\* Number of distinct elements the caller ever adds.
MaxItems == 2

\* Largest argument of cvec_reserve.
MaxReserve == MaxItems

\* Number of cvec_push_back calls of a run that only pushes.
MaxPush == 8

\* Number of elements added in a run that only adds elements.
MaxAdd == 4

---------------------------------------------------------------------------
(* Program constants and value domains *)

CVEC_EOK == 0
CVEC_EOOM == -1

\* The two values of the __data pointer that the code distinguishes.
NULL == "NULL"
PTR == "PTR"

\* size_t arithmetic is modular.  The width is scaled down from 2^64; what
\* the code depends on is only that a negative difference wraps to a count
\* far larger than any block.
SizeModulus == 65536

\* A byte count no object can have: a memcpy of at least this many elements
\* runs off the address space the process has mapped.
HugeCount == SizeModulus \div 2

\* The elements the caller adds are 1..MaxItems, each distinct (as the
\* records of example2.c are).  Junk is an indeterminate value: the content
\* of a slot that was never written, or a value read outside the block.
Items == 1 .. MaxItems
Junk == 0

\* The sentinel of example1.c.
SentinelValue == -1

\* Outcomes of one realloc call.
\*   "ok"   : a non-null block of the requested size, old contents kept
\*   "fail" : NULL, the old block is untouched (and still allocated)
\*   "zero" : the request was for zero bytes and was answered with NULL,
\*            the old block having been freed
\*   "none" : no realloc call was made
AllocOutcomes(size) == IF size = 0 THEN {"ok", "fail", "zero"} ELSE {"ok", "fail"}

\* The two orders in which a memcpy implementation may copy.
CopyOrders == {"ascending", "descending"}

\* The source and the destination of a copy of cnt elements overlap.
Overlap(dst, src, cnt) ==
  /\ dst # src
  /\ (IF dst < src THEN src - dst ELSE dst - src) < cnt

\* The orders that matter to a copy: where the ranges do not overlap every
\* order gives the same block.
OrdersFor(dst, src, cnt) ==
  IF cnt < SizeModulus \div 2 /\ Overlap(dst, src, cnt) THEN CopyOrders ELSE {"ascending"}

\* Values an uninitialized size_t may hold, for a vector of n elements: a
\* position in the vector, one just outside it, or a wild one.
UninitValues(n) == (0 .. n + 1) \cup {SizeModulus - 1}

---------------------------------------------------------------------------
(* The heap block *)

\* Read of slot i (0-based) of block b; outside the block the value is
\* indeterminate.
ReadSlot(b, i) == IF i >= 0 /\ i < Len(b) THEN b[i + 1] ELSE Junk

\* Write of slot i (0-based); a write outside the block lands in memory
\* the vector does not own and is not seen in the block.
WriteSlot(b, i, x) == IF i >= 0 /\ i < Len(b) THEN [b EXCEPT ![i + 1] = x] ELSE b

\* ReallocBlock as malloc would do it: a new block, the old contents not
\* carried over.
ReallocBlockFresh(old, k) == [i \in 1 .. k |-> Junk]

\* realloc(old, k) that returns a non-null pointer: a block of k slots
\* holding the first min(k, Len(old)) slots of the old block.
ReallocBlock(old, k) ==
  [i \in 1 .. k |-> IF i <= Len(old) THEN old[i] ELSE Junk]

\* realloc((__v).__data, (__v).__t * k) with the given outcome, as
\* the pair <<new __data, block it points to>>.
realloc(w, k, outcome) ==
  IF outcome = "ok"
    THEN [data |-> PTR, block |-> ReallocBlock(w.block, k)]
    ELSE [data |-> NULL, block |-> << >>]

\* memcpy(data + dst, data + src, cnt elements), copying one element at a
\* time in ascending or in descending address order.  On ranges that do
\* not overlap both orders give the same block.
RECURSIVE CopyAscending(_, _, _, _, _)
CopyAscending(b, dst, src, cnt, k) ==
  IF k >= cnt THEN b
  ELSE CopyAscending(WriteSlot(b, dst + k, ReadSlot(b, src + k)), dst, src, cnt, k + 1)

RECURSIVE CopyDescending(_, _, _, _)
CopyDescending(b, dst, src, k) ==
  IF k <= 0 THEN b
  ELSE CopyDescending(WriteSlot(b, dst + k - 1, ReadSlot(b, src + k - 1)), dst, src, k - 1)

memcpy(b, dst, src, cnt, order) ==
  IF order = "ascending" THEN CopyAscending(b, dst, src, cnt, 0)
  ELSE CopyDescending(b, dst, src, cnt)

\* The copy touches a slot outside the block.
CopyOutOfBounds(b, dst, src, cnt) ==
  cnt > 0 /\ (dst + cnt > Len(b) \/ src + cnt > Len(b))

\* The copy cannot be carried out at all: through a null pointer, or of a
\* wrapped-around size.
CopyFaults(w, cnt) == cnt > 0 /\ (w.data = NULL \/ cnt >= HugeCount)

\* Difference of two size_t values.
SizeSub(a, b) == (a - b) % SizeModulus

---------------------------------------------------------------------------
(* Results of one macro call *)

\* v     : the struct (and block) after the call
\* crash : the call faulted (the process is gone)
\* hang  : the call does not return
\* oob   : the call touched a slot outside the block
\* trace : the destructor calls and the memory events of the call, in
\*         order: <<"dtor", index, value>>, <<"move", dst, count>>,
\*         <<"release", 0, 0>>
Result(w, tr, oob) == [v |-> w, crash |-> FALSE, hang |-> FALSE, oob |-> oob, trace |-> tr]
Fault(w, tr) == [v |-> w, crash |-> TRUE, hang |-> FALSE, oob |-> TRUE, trace |-> tr]
Hang(w, tr) == [v |-> w, crash |-> FALSE, hang |-> TRUE, oob |-> FALSE, trace |-> tr]

DtorEvent(i, x) == <<"dtor", i, x>>
MoveEvent(dst, cnt) == <<"move", dst, cnt>>
ReleaseEvent == <<"release", 0, 0>>

---------------------------------------------------------------------------
(* The macros *)

\* cvec_init / CVEC_INIT.
cvec_init(f) ==
  [n |-> 0, m |-> 0, data |-> NULL, block |-> << >>, on_free |-> f,
   e |-> CVEC_EOK, sentinel |-> SentinelValue]

\* NeedGrow with the comparison off by one: a full vector does not grow.
NeedGrowLate(w) == w.n > w.m

\* The condition under which __cvec_maybe_grow reallocates.
NeedGrow(w) == w.n = w.m

\* GrowCapacity without the increment.
GrowCapacityDouble(m) == IF m # 0 THEN 2 * m ELSE 2

\* The capacity __cvec_maybe_grow asks for: m <<= 1 or m = 2, then ++m.
GrowCapacity(m) == (IF m # 0 THEN 2 * m ELSE 2) + 1

\* __cvec_maybe_grow.  brk is TRUE when the macro leaves the enclosing
\* do-while through its break.
maybe_grow(w, outcome) ==
  IF NeedGrow(w)
    THEN LET m1 == GrowCapacity(w.m)
             r == realloc(w, m1, outcome)
             w1 == [w EXCEPT !.m = m1, !.data = r.data, !.block = r.block]
         IN IF r.data = NULL
              THEN [v |-> [w1 EXCEPT !.e = CVEC_EOOM], brk |-> TRUE]
              ELSE [v |-> w1, brk |-> FALSE]
    ELSE [v |-> w, brk |-> FALSE]

\* The slot cvec_push_back writes.
PushBackSlot(w) == w.n

\* cvec_push_back.
cvec_push_back(w, item, outcome) ==
  LET g == maybe_grow(w, outcome)
      w1 == g.v
  IN IF g.brk THEN Result(w1, << >>, FALSE)
     ELSE IF w1.data = NULL THEN Fault(w1, << >>)
     ELSE Result([w1 EXCEPT !.block = WriteSlot(w1.block, PushBackSlot(w1), item),
                            !.n = w1.n + 1],
                 << >>, PushBackSlot(w1) >= Len(w1.block))

\* The destructor calls of the loop of cvec_free, for __i = k .. n-1.
RECURSIVE FreeLoop(_, _)
FreeLoop(w, k) ==
  IF k >= w.n THEN << >>
  ELSE <<DtorEvent(k, ReadSlot(w.block, k))>> \o FreeLoop(w, k + 1)

\* FreeFields without the reset of the error state.
FreeFieldsKeepError(w) ==
  [w EXCEPT !.data = NULL, !.block = << >>, !.n = 0, !.m = 0]

\* The fields cvec_free resets.
FreeFields(w) ==
  [w EXCEPT !.data = NULL, !.block = << >>, !.n = 0, !.m = 0, !.e = CVEC_EOK]

\* cvec_free.
cvec_free(w) ==
  LET tr == IF w.on_free /\ w.data # NULL THEN FreeLoop(w, 0) ELSE << >>
  IN Result(FreeFields(w), tr \o <<ReleaseEvent>>, FALSE)

\* ReserveCapacity of a reserve that never lowers the capacity.
ReserveCapacityMax(w, k, data) == IF k > w.m THEN k ELSE w.m

\* The capacity cvec_reserve records.
ReserveCapacity(w, k, data) == k

\* cvec_reserve.
cvec_reserve(w, k, outcome) ==
  LET r == realloc(w, k, outcome)
      w1 == [w EXCEPT !.data = r.data, !.block = r.block]
      w2 == IF r.data = NULL THEN [w1 EXCEPT !.e = CVEC_EOOM] ELSE w1
  IN Result([w2 EXCEPT !.m = ReserveCapacity(w, k, r.data)], << >>, FALSE)


\* An access at this index is far outside anything the process has mapped.
WildIndex(i) == i >= HugeCount

\* cvec_clear.  The loop increments i, a variable of the caller, and never
\* __i: with a destructor and at least one element it calls the destructor
\* on __data[0] and never ends.
cvec_clear(w) ==
  IF w.on_free /\ w.n > 0
    THEN IF w.data = NULL THEN Fault(w, << >>)
         ELSE Hang(w, <<DtorEvent(0, ReadSlot(w.block, 0))>>)
    ELSE Result([w EXCEPT !.n = 0], << >>, FALSE)

\* The element count of the memcpy of cvec_insert: __n++ - __p.
InsertCount(n, p) == SizeSub(n, p)

\* cvec_insert.
cvec_insert(w, p, item, outcome, order) ==
  LET g == maybe_grow(w, outcome)
      w1 == g.v
      cnt == InsertCount(w1.n, p)
  IN IF g.brk THEN Result(w1, << >>, FALSE)
     ELSE IF w1.data = NULL \/ CopyFaults(w1, cnt) THEN Fault(w1, << >>)
     ELSE Result([w1 EXCEPT !.block = WriteSlot(memcpy(w1.block, p + 1, p, cnt, order), p, item),
                            !.n = w1.n + 1],
                 <<MoveEvent(p + 1, cnt)>>,
                 CopyOutOfBounds(w1.block, p + 1, p, cnt) \/ p >= Len(w1.block))

\* The element count of the memcpy of cvec_erase: __n-- - (__p - 1).
EraseCount(n, p) == SizeSub(n, SizeSub(p, 1))

\* cvec_erase.
cvec_erase(w, p, order) ==
  IF w.n > 0
    THEN LET tr == IF w.on_free THEN <<DtorEvent(p, ReadSlot(w.block, p))>> ELSE << >>
             cnt == EraseCount(w.n, p)
             w1 == [w EXCEPT !.n = w.n - 1]
         IN IF w.on_free /\ (w.data = NULL \/ WildIndex(p)) THEN Fault(w, << >>)
            ELSE IF CopyFaults(w, cnt) \/ WildIndex(p) THEN Fault(w1, tr)
            ELSE Result([w1 EXCEPT !.block = memcpy(w.block, p, p + 1, cnt, order)],
                        tr \o <<MoveEvent(p, cnt)>>,
                        CopyOutOfBounds(w.block, p, p + 1, cnt)
                          \/ (w.on_free /\ p >= Len(w.block)))
    ELSE Result(w, << >>, FALSE)

\* The counting loop of cvec_erase_n: the value of __t when it ends.
ClampCount(n, p, c) == IF p < n THEN (IF c < n - p THEN c ELSE n - p) ELSE 0

\* The element count of the memcpy of cvec_erase_n: __n - (__p - __t).
EraseNCount(n, p, t) == SizeSub(n, SizeSub(p, t))

\* The destructor loop of cvec_erase_n, for __x = x .. stop-1.
RECURSIVE EraseNLoop(_, _, _)
EraseNLoop(w, x, stop) ==
  IF x >= stop THEN << >>
  ELSE <<DtorEvent(x, ReadSlot(w.block, x))>> \o EraseNLoop(w, x + 1, stop)

\* cvec_erase_n.  With __p == 1 it expands cvec_erase(__v, __p), whose own
\* declaration "size_t __p = (__p);" reads the new, uninitialized __p: the
\* position erased is the indeterminate value q.  With __p == 0 neither
\* branch is taken.
cvec_erase_n(w, p, c, q, order) ==
  IF p = 1 THEN cvec_erase(w, q, order)
  ELSE IF p > 1 /\ w.n > 0
    THEN LET t == ClampCount(w.n, p, c)
             tr == IF w.on_free THEN EraseNLoop(w, p, p + t) ELSE << >>
             cnt == EraseNCount(w.n, p, t)
         IN IF w.on_free /\ t > 0 /\ w.data = NULL THEN Fault(w, << >>)
            ELSE IF CopyFaults(w, cnt) THEN Fault(w, tr)
            ELSE Result([w EXCEPT !.block = memcpy(w.block, p, p + t, cnt, order),
                                  !.n = w.n - t],
                        tr \o <<MoveEvent(p, cnt)>>,
                        CopyOutOfBounds(w.block, p, p + t, cnt))
  ELSE Result(w, << >>, FALSE)

\* cvec_begin, cvec_end as slot indices; cvec_size, cvec_cap, cvec_empty.
cvec_size(w) == w.n
cvec_cap(w) == w.m
cvec_empty(w) == w.n = 0

\* cvec_at without its bounds test.
cvec_atUnguarded(w, i) == ReadSlot(w.block, i)

\* cvec_get, cvec_at, cvec_front, cvec_back.
cvec_get(w, i) == ReadSlot(w.block, i)
cvec_at(w, i) == IF i < w.n THEN ReadSlot(w.block, i) ELSE w.sentinel
cvec_front(w) == IF w.n > 0 THEN ReadSlot(w.block, 0) ELSE w.sentinel
cvec_back(w) == IF w.n > 0 THEN ReadSlot(w.block, w.n - 1) ELSE w.sentinel

\* The accessor dereferences a null __data: cvec_get always reads
\* *(__data + i), the guarded accessors only on the branch their test
\* selects.
GetFaults(w, i) == w.data = NULL
AtFaults(w, i) == i < w.n /\ w.data = NULL
FrontFaults(w) == w.n > 0 /\ w.data = NULL
BackFaults(w) == w.n > 0 /\ w.data = NULL

\* cvec_had_error, cvec_error.
cvec_error(w) == w.e
cvec_had_error(w) == w.e # CVEC_EOK

\* cvec_push_front.
cvec_push_front(w, item, outcome, order) ==
  LET g == maybe_grow(w, outcome)
      w1 == g.v
      cnt == w1.n
  IN IF g.brk THEN Result(w1, << >>, FALSE)
     ELSE IF w1.data = NULL THEN Fault(w1, << >>)
     ELSE Result([w1 EXCEPT !.block = WriteSlot(memcpy(w1.block, 1, 0, cnt, order), 0, item),
                            !.n = w1.n + 1],
                 <<MoveEvent(1, cnt)>>,
                 CopyOutOfBounds(w1.block, 1, 0, cnt) \/ Len(w1.block) = 0)

\* cvec_pop_front with the destructor call moved out of the test for an
\* empty vector.
cvec_pop_frontEager(w, order) ==
  LET tr == IF w.on_free THEN <<DtorEvent(0, cvec_front(w))>> ELSE << >>
  IN IF w.n > 0
       THEN IF w.on_free /\ w.data = NULL THEN Fault(w, << >>)
            ELSE IF CopyFaults(w, w.n - 1) THEN Fault(w, tr)
            ELSE Result([w EXCEPT !.block = memcpy(w.block, 0, 1, w.n - 1, order), !.n = w.n - 1],
                        tr \o <<MoveEvent(0, w.n - 1)>>,
                        CopyOutOfBounds(w.block, 0, 1, w.n - 1))
       ELSE Result(w, tr, FALSE)

\* cvec_pop_front.
cvec_pop_front(w, order) ==
  IF w.n > 0
    THEN LET tr == IF w.on_free THEN <<DtorEvent(0, cvec_front(w))>> ELSE << >>
             cnt == w.n - 1
         IN IF w.on_free /\ w.data = NULL THEN Fault(w, << >>)
            ELSE IF CopyFaults(w, cnt) THEN Fault(w, tr)
            ELSE Result([w EXCEPT !.block = memcpy(w.block, 0, 1, cnt, order), !.n = cnt],
                        tr \o <<MoveEvent(0, cnt)>>,
                        CopyOutOfBounds(w.block, 0, 1, cnt)
                          \/ (w.on_free /\ Len(w.block) = 0))
    ELSE Result(w, << >>, FALSE)

\* cvec_pop_back with the destructor called on the first element instead of
\* the last.
cvec_pop_backFront(w) ==
  IF w.n > 0
    THEN IF w.on_free
           THEN IF w.data = NULL THEN Fault(w, << >>)
                ELSE Result([w EXCEPT !.n = w.n - 1],
                            <<DtorEvent(0, cvec_front(w))>>,
                            w.n > Len(w.block))
           ELSE Result([w EXCEPT !.n = w.n - 1], << >>, FALSE)
    ELSE Result(w, << >>, FALSE)

\* cvec_pop_back.
cvec_pop_back(w) ==
  IF w.n > 0
    THEN IF w.on_free
           THEN IF w.data = NULL THEN Fault(w, << >>)
                ELSE Result([w EXCEPT !.n = w.n - 1],
                            <<DtorEvent(w.n - 1, cvec_back(w))>>,
                            w.n > Len(w.block))
           ELSE Result([w EXCEPT !.n = w.n - 1], << >>, FALSE)
    ELSE Result(w, << >>, FALSE)

\* The condition under which cvec_shrink_to_fit reallocates.
NeedShrink(w) == w.m > w.n

\* cvec_shrink_to_fit.
cvec_shrink_to_fit(w, outcome) ==
  IF NeedShrink(w)
    THEN LET r == realloc(w, w.n, outcome)
             w1 == [w EXCEPT !.data = r.data, !.block = r.block]
             w2 == IF r.data = NULL THEN [w1 EXCEPT !.e = CVEC_EOOM] ELSE w1
         IN Result([w2 EXCEPT !.m = w.n], << >>, FALSE)
    ELSE Result(w, << >>, FALSE)

---------------------------------------------------------------------------
(* History *)

\* The destructor count of each element, saturating at 2 ("more than
\* once").  A call of the destructor on an indeterminate value is seen in
\* the trace of the call only.
Bump(dc, x) == IF x \in Items THEN [dc EXCEPT ![x] = IF @ < 2 THEN @ + 1 ELSE 2] ELSE dc

RECURSIVE Destruct(_, _)
Destruct(dc, tr) ==
  IF tr = << >> THEN dc
  ELSE Destruct(IF Head(tr)[1] = "dtor" THEN Bump(dc, Head(tr)[3]) ELSE dc, Tail(tr))

\* The record of a call: the macro, its arguments, the realloc outcome,
\* whether the call before it was cvec_free, whether it was a cvec_push_back
\* that added its element, and what it did.
Call(op, pos, count, alloc, r) ==
  [op |-> op, pos |-> pos, count |-> count, alloc |-> alloc,
   afterFree |-> (last.op = "free"),
   afterPush |-> (last.op = "push_back" /\ last.alloc \in {"ok", "none"}),
   trace |-> r.trace]

\* One call of a macro with result r; item is the element the call adds, if
\* it adds one.  A call that faults ends the process: the struct is left as
\* it was found.
Commit(op, pos, count, item, alloc, r) ==
  /\ pc = "idle"
  /\ v' = IF r.crash THEN v ELSE r.v
  /\ pc' = IF r.crash THEN "crashed" ELSE IF r.hang THEN "clear_loop" ELSE "idle"
  /\ dcount' = Destruct(dcount, r.trace)
  /\ last' = Call(op, pos, count, alloc, r)
  /\ nextItem' = IF ~r.crash /\ r.v.n = v.n + 1 THEN nextItem + 1 ELSE nextItem
  /\ IF op = "push_back" /\ ~r.crash /\ alloc \in {"ok", "none"} /\ onlyPushBack
       THEN onlyPushBack' = TRUE /\ pushed' = Append(pushed, item)
       ELSE onlyPushBack' = (op = "init") /\ pushed' = << >>

\* The realloc outcomes of a call that reallocates to size k when cond holds.
Outcomes(cond, k) == IF cond THEN AllocOutcomes(k) ELSE {"none"}

---------------------------------------------------------------------------
(* The state machine *)

Init ==
  /\ \E f \in BOOLEAN : v = cvec_init(f)
  /\ pc = "idle"
  /\ nextItem = 0
  /\ dcount = [x \in Items |-> 0]
  /\ last = [op |-> "init", pos |-> 0, count |-> 0, alloc |-> "none",
             afterFree |-> FALSE, afterPush |-> FALSE, trace |-> << >>]
  /\ pushed = << >>
  /\ onlyPushBack = TRUE

\* cvec_init, with the destructor of the element type, on a vector that
\* owns no block (one torn down, or one whose block was lost).
DoInit ==
  /\ v.data = NULL
  /\ Commit("init", 0, 0, 0, "none", Result(cvec_init(v.on_free), << >>, FALSE))

DoFree == Commit("free", 0, 0, 0, "none", cvec_free(v))

\* reserve(k) with k >= length.
DoReserve ==
  \E k \in v.n .. MaxReserve : \E out \in AllocOutcomes(k) :
    Commit("reserve", k, 0, 0, out, cvec_reserve(v, k, out))

DoShrinkToFit ==
  \E out \in Outcomes(NeedShrink(v), v.n) :
    Commit("shrink_to_fit", 0, 0, 0, out, cvec_shrink_to_fit(v, out))

DoPushBack ==
  /\ nextItem < MaxItems
  /\ \E out \in Outcomes(NeedGrow(v), GrowCapacity(v.m)) :
       Commit("push_back", v.n, 0, nextItem + 1, out, cvec_push_back(v, nextItem + 1, out))

DoPushFront ==
  /\ nextItem < MaxItems
  /\ \E out \in Outcomes(NeedGrow(v), GrowCapacity(v.m)) : \E order \in OrdersFor(1, 0, v.n) :
       Commit("push_front", 0, 0, nextItem + 1, out,
              cvec_push_front(v, nextItem + 1, out, order))

\* insert(p, x) with 0 <= p <= length.
DoInsert ==
  /\ nextItem < MaxItems
  /\ \E p \in 0 .. v.n :
       \E out \in Outcomes(NeedGrow(v), GrowCapacity(v.m)) :
       \E order \in OrdersFor(p + 1, p, InsertCount(v.n, p)) :
         Commit("insert", p, 0, nextItem + 1, out,
                cvec_insert(v, p, nextItem + 1, out, order))

\* erase(p) with 0 <= p < length, or on an empty vector.
DoErase ==
  \E p \in 0 .. (IF v.n = 0 THEN 0 ELSE v.n - 1) :
  \E order \in OrdersFor(p, p + 1, EraseCount(v.n, p)) :
    Commit("erase", p, 0, 0, "none", cvec_erase(v, p, order))

\* erase_n(p, c) with every position up to one past the length and every
\* count up to one more than the elements from p on.
DoEraseN ==
  \E p \in 0 .. v.n + 1 : \E c \in 0 .. (IF p < v.n THEN v.n - p + 1 ELSE 1) :
    \E q \in (IF p = 1 THEN UninitValues(v.n) ELSE {0}) :
    \E order \in (IF p = 1 THEN OrdersFor(q, q + 1, EraseCount(v.n, q))
                  ELSE OrdersFor(p, p + ClampCount(v.n, p, c), EraseNCount(v.n, p, ClampCount(v.n, p, c)))) :
      Commit("erase_n", p, c, 0, "none", cvec_erase_n(v, p, c, q, order))

DoPopFront ==
  \E order \in OrdersFor(0, 1, v.n - 1) : Commit("pop_front", 0, 0, 0, "none", cvec_pop_front(v, order))

DoPopBack == Commit("pop_back", 0, 0, 0, "none", cvec_pop_back(v))

DoClear == Commit("clear", 0, 0, 0, "none", cvec_clear(v))

\* One more turn of the loop of cvec_clear that never ends.
ClearLoop ==
  /\ pc = "clear_loop"
  /\ dcount' = Bump(dcount, ReadSlot(v.block, 0))
  /\ last' = [last EXCEPT !.trace = <<DtorEvent(0, ReadSlot(v.block, 0)),
                                      DtorEvent(0, ReadSlot(v.block, 0))>>]
  /\ UNCHANGED <<v, pc, nextItem, pushed, onlyPushBack>>

Next ==
  \/ DoInit
  \/ DoFree
  \/ DoReserve
  \/ DoShrinkToFit
  \/ DoPushBack
  \/ DoPushFront
  \/ DoInsert
  \/ DoErase
  \/ DoEraseN
  \/ DoPopFront
  \/ DoPopBack
  \/ DoClear
  \/ ClearLoop

Spec == Init /\ [][Next]_vars

\* A run that only calls cvec_push_back, with any values.
DoPushBackOnly ==
  /\ nextItem < MaxPush
  /\ \E x \in Items : \E out \in Outcomes(NeedGrow(v), GrowCapacity(v.m)) :
       Commit("push_back", v.n, 0, x, out, cvec_push_back(v, x, out))

SpecPushBack == Init /\ [][DoPushBackOnly]_vars

\* A run that only adds elements, at the back, at the front or at any
\* position 0 <= p <= length: the elements are 1, 2, ... in the order of
\* the calls.
AddPushBack ==
  /\ nextItem < MaxAdd
  /\ \E out \in Outcomes(NeedGrow(v), GrowCapacity(v.m)) :
       Commit("push_back", v.n, 0, nextItem + 1, out, cvec_push_back(v, nextItem + 1, out))

AddPushFront ==
  /\ nextItem < MaxAdd
  /\ \E out \in Outcomes(NeedGrow(v), GrowCapacity(v.m)) : \E order \in OrdersFor(1, 0, v.n) :
       Commit("push_front", 0, 0, nextItem + 1, out,
              cvec_push_front(v, nextItem + 1, out, order))

AddInsert ==
  /\ nextItem < MaxAdd
  /\ \E p \in 0 .. v.n :
       \E out \in Outcomes(NeedGrow(v), GrowCapacity(v.m)) :
       \E order \in OrdersFor(p + 1, p, InsertCount(v.n, p)) :
         Commit("insert", p, 0, nextItem + 1, out,
                cvec_insert(v, p, nextItem + 1, out, order))

AddNext ==
  \/ AddPushBack
  \/ AddPushFront
  \/ AddInsert

SpecAdd == Init /\ [][AddNext]_vars

\* A run that uses the vector as a queue: the elements 1, 2, ... are added
\* at the back and removed from the front.
QueueNext ==
  \/ AddPushBack
  \/ DoPopFront

SpecQueue == Init /\ [][QueueNext]_vars


---------------------------------------------------------------------------
(* Properties *)

\* The calls that add an element.
AddOps == {"push_back", "push_front", "insert"}

Min(a, b) == IF a < b THEN a ELSE b

\* The destructor calls of a trace, in order.
DtorEvents(tr) == SelectSeq(tr, LAMBDA ev : ev[1] = "dtor")

\* Every destructor call of the trace comes before every memory event.
DtorsFirst(tr) ==
  \A i, j \in 1 .. Len(tr) : (tr[i][1] = "dtor" /\ tr[j][1] # "dtor") => i < j

\* C1: when the reallocation of a growth-triggering push_back, push_front
\* or insert fails, the call commits nothing: length, capacity and storage
\* are what they were before the call, the element is not added, and the
\* error state is OUT_OF_MEMORY.
C1_FailedGrowthCommitsNothing ==
  [][(last'.op \in AddOps /\ last'.alloc = "fail")
       => /\ v'.n = v.n
          /\ v'.m = v.m
          /\ v'.data = v.data
          /\ v'.block = v.block
          /\ v'.e = CVEC_EOOM]_vars

\* C2: after any sequence of push_back calls on an initialized vector in
\* which no allocation fails, size() is the number of pushes and get(i) is
\* the i-th pushed value, for every i < size().
C2_PushBackKeepsOrder ==
  (onlyPushBack /\ pc = "idle")
    => /\ cvec_size(v) = Len(pushed)
       /\ \A i \in 0 .. cvec_size(v) - 1 : cvec_get(v, i) = pushed[i + 1]

\* A run of pushes that went through the growths 0 -> 3 -> 7 -> 15, the
\* last two with elements in the block.
C2_Witness ==
  /\ onlyPushBack
  /\ pc = "idle"
  /\ last.op = "push_back"
  /\ cvec_size(v) > 7
  /\ cvec_cap(v) = 15

\* C3: with a destructor set, every element ever added is passed to the
\* destructor exactly once, when it is removed or at teardown, also in runs
\* in which an allocation fails; the destructor is never invoked on an
\* element that is still in the vector.
C3_DestructorExactlyOnce ==
  (v.on_free /\ pc = "idle")
    => /\ \A i \in 0 .. v.n - 1 :
            cvec_get(v, i) \in Items => dcount[cvec_get(v, i)] = 0
       /\ last.op = "free" => \A x \in 1 .. nextItem : dcount[x] = 1

\* C4: clear, erase_range and teardown invoke the destructor exactly once
\* on each element they remove, in ascending index order, and before the
\* slots are overwritten or the block is released.
C4_BulkDestructorOrder ==
  [][(v.on_free /\ last'.op \in {"clear", "erase_n", "free"} /\ pc' # "crashed")
       => LET first == IF last'.op = "erase_n" THEN last'.pos ELSE 0
              k == v.n - v'.n
          IN /\ DtorEvents(last'.trace)
                  = [i \in 1 .. k |-> DtorEvent(first + i - 1, cvec_get(v, first + i - 1))]
             /\ DtorsFirst(last'.trace)]_vars

\* C5: for 0 <= p < length and count >= 1, erase_range(p, count) removes
\* the min(count, length - p) elements from p on: length drops by that
\* many and the vector is the old [0, p) followed by the old [p + c, length).
C5_EraseRangeRemovesClamped ==
  [][(last'.op = "erase_n" /\ last'.pos < v.n /\ last'.count >= 1)
       => LET p == last'.pos
              k == Min(last'.count, v.n - last'.pos)
          IN /\ pc' = "idle"
             /\ v'.n = v.n - k
             /\ \A i \in 0 .. v'.n - 1 :
                  cvec_get(v', i) = (IF i < p THEN cvec_get(v, i) ELSE cvec_get(v, i + k))]_vars

\* C6: erase_range(p, count) with count = 0 or p >= length changes nothing
\* (length, capacity, elements, error state) and invokes no destructor.
C6_EraseRangeNoOp ==
  [][(last'.op = "erase_n" /\ (last'.count = 0 \/ last'.pos >= v.n))
       => /\ v' = v
          /\ pc' = "idle"
          /\ DtorEvents(last'.trace) = << >>]_vars

\* C7: after teardown size() and capacity() are 0, storage is unset and the
\* error state is OK; a push_back(x) that follows does what it does on a
\* freshly initialized vector: if its allocation succeeds, size() is 1,
\* get(0) is x and the capacity is 3.
C7_TeardownResets ==
  [][/\ last'.op = "free"
          => /\ pc' = "idle"
             /\ cvec_size(v') = 0
             /\ cvec_cap(v') = 0
             /\ v'.data = NULL
             /\ cvec_error(v') = CVEC_EOK
     /\ (last.op = "free" /\ last'.op = "push_back")
          => /\ pc' = "idle"
             /\ v' = cvec_push_back(cvec_init(v.on_free), nextItem + 1, last'.alloc).v
             /\ last'.alloc = "ok"
                  => /\ cvec_size(v') = 1
                     /\ cvec_get(v', 0) = nextItem + 1
                     /\ cvec_cap(v') = 3
                     /\ ~cvec_had_error(v')]_vars

\* A push_back that succeeded right after the teardown of a vector that had
\* held an element.
C7_Witness ==
  /\ last.op = "push_back"
  /\ last.afterFree
  /\ last.alloc = "ok"
  /\ nextItem = 2
  /\ cvec_size(v) = 1
  /\ cvec_get(v, 0) = 2

\* C8: length <= capacity in every state reached by calls with arguments
\* in contract, also after a failed allocation.
C8_LengthWithinCapacity == v.n <= v.m

\* A vector that holds elements right after the reallocation of an insert
\* failed.
C8_Witness ==
  /\ last.op = "insert"
  /\ last.alloc = "fail"
  /\ v.n > 0
  /\ v.n < v.m

\* C9: storage is a block of at least capacity slots whenever capacity > 0
\* and is unset whenever capacity = 0, after every call.
C9_StorageMatchesCapacity ==
  pc = "idle"
    => /\ v.m > 0 => (v.data # NULL /\ Len(v.block) >= v.m)
       /\ v.m = 0 => v.data = NULL

\* C10: after a call that attempts a reallocation the error state is
\* OUT_OF_MEMORY if and only if realloc returned no block, so that a later
\* successful reallocation replaces an earlier OUT_OF_MEMORY by OK.
C10_ErrorReflectsLastAllocation ==
  [][(last'.alloc # "none" /\ pc' = "idle")
       => (v'.e = CVEC_EOOM <=> last'.alloc \in {"fail", "zero"})]_vars

\* C11: when the reallocation of reserve(n) or of shrink_to_fit fails, the
\* error state becomes OUT_OF_MEMORY and length, capacity and storage are
\* what they were before the call.
C11_FailedResizeCommitsNothing ==
  [][(last'.op \in {"reserve", "shrink_to_fit"} /\ last'.alloc = "fail")
       => /\ v'.e = CVEC_EOOM
          /\ v'.n = v.n
          /\ v'.m = v.m
          /\ v'.data = v.data
          /\ v'.block = v.block]_vars

\* C12: for 0 <= p <= length, an insert(p, x) that does not fail adds one to
\* the length and gives the old elements [0, p), then x, then the old
\* elements [p, length) in their order, so that no value is lost and none
\* is duplicated.
C12_InsertShiftsTail ==
  [][(last'.op = "insert" /\ last'.alloc \in {"ok", "none"} /\ pc' = "idle")
       => LET p == last'.pos
              x == nextItem + 1
          IN /\ cvec_size(v') = cvec_size(v) + 1
             /\ \A i \in 0 .. cvec_size(v) :
                  cvec_get(v', i) = (IF i < p THEN cvec_get(v, i)
                                     ELSE IF i = p THEN x
                                     ELSE cvec_get(v, i - 1))]_vars

\* C13: a push_back(x) that adds its element, followed at once by
\* pop_back(), leaves size() and every get(i), i < size(), as they were
\* before the push, and the destructor, if set, is invoked exactly once
\* during the pair, on x.  The push adds x after the elements and invokes
\* no destructor; the pop removes the last element, x, invokes the
\* destructor on it and leaves the others.
C13_PushBackPopBack ==
  [][/\ (last'.op = "push_back" /\ last'.alloc \in {"ok", "none"} /\ pc' = "idle")
          => /\ cvec_size(v') = cvec_size(v) + 1
             /\ \A i \in 0 .. cvec_size(v) - 1 : cvec_get(v', i) = cvec_get(v, i)
             /\ cvec_get(v', cvec_size(v)) = nextItem + 1
             /\ DtorEvents(last'.trace) = << >>
     /\ (last'.op = "pop_back" /\ last'.afterPush)
          => /\ pc' = "idle"
             /\ cvec_size(v') = cvec_size(v) - 1
             /\ \A i \in 0 .. cvec_size(v') - 1 : cvec_get(v', i) = cvec_get(v, i)
             /\ cvec_get(v, cvec_size(v) - 1) = nextItem
             /\ DtorEvents(last'.trace)
                  = (IF v.on_free THEN <<DtorEvent(cvec_size(v) - 1, nextItem)>> ELSE << >>)]_vars

\* A pop_back right after the push_back of element 2 onto a vector that
\* holds element 1: the destructor was called on 2, and 1 is what is left.
C13_Witness ==
  /\ last.op = "pop_back"
  /\ last.afterPush
  /\ v.on_free
  /\ last.trace = <<DtorEvent(1, 2)>>
  /\ dcount = [x \in Items |-> IF x = 2 THEN 1 ELSE 0]
  /\ cvec_size(v) = 1
  /\ cvec_get(v, 0) = 1

\* C14: in every state, at(i) is get(i) for i < size() and the sentinel for
\* i >= size(); front() and back() are get(0) and get(size() - 1) on a
\* vector that is not empty and the sentinel on an empty one; a guarded
\* accessor reads storage only where get reads it, and never on its
\* sentinel branch.  On a freshly initialized vector size() is 0 and
\* front() and back() are the sentinel.
C14_GuardedAccessors ==
  pc = "idle"
    => /\ \A i \in 0 .. cvec_size(v) + 1 :
            IF i < cvec_size(v)
              THEN cvec_at(v, i) = cvec_get(v, i) /\ (AtFaults(v, i) <=> GetFaults(v, i))
              ELSE cvec_at(v, i) = v.sentinel /\ ~AtFaults(v, i)
       /\ IF cvec_empty(v)
            THEN /\ cvec_front(v) = v.sentinel /\ ~FrontFaults(v)
                 /\ cvec_back(v) = v.sentinel /\ ~BackFaults(v)
            ELSE /\ cvec_front(v) = cvec_get(v, 0)
                 /\ FrontFaults(v) <=> GetFaults(v, 0)
                 /\ cvec_back(v) = cvec_get(v, cvec_size(v) - 1)
                 /\ BackFaults(v) <=> GetFaults(v, cvec_size(v) - 1)
       /\ last.op = "init"
            => cvec_size(v) = 0 /\ cvec_front(v) = SentinelValue /\ cvec_back(v) = SentinelValue

\* A vector that holds the elements 1 and 2 in a block of three slots: at
\* gives the elements at 0 and 1 and the sentinel at 2, where get gives
\* the content of the unused slot.
C14_Witness ==
  /\ pc = "idle"
  /\ cvec_size(v) = 2
  /\ cvec_cap(v) = 3
  /\ cvec_at(v, 0) = 1
  /\ cvec_at(v, 1) = 2
  /\ cvec_front(v) = 1
  /\ cvec_back(v) = 2
  /\ cvec_at(v, 2) = SentinelValue
  /\ cvec_get(v, 2) # SentinelValue

\* C15: on an empty vector pop_back, pop_front and erase change nothing
\* (length stays 0; capacity, storage and error state are as before) and
\* invoke no destructor.
C15_EmptyRemovalsAreNoOps ==
  [][(cvec_empty(v) /\ last'.op \in {"pop_back", "pop_front", "erase"})
       => /\ pc' = "idle"
          /\ v' = v
          /\ cvec_size(v') = 0
          /\ last'.trace = << >>
          /\ dcount' = dcount]_vars

\* A pop_front on a vector with a destructor that had been emptied before
\* the call and still owns its block: the call invoked no destructor.
C15_Witness ==
  /\ last.op = "pop_front"
  /\ pc = "idle"
  /\ v.on_free
  /\ last.trace = << >>
  /\ cvec_empty(v)
  /\ cvec_cap(v) = 3
  /\ v.data = PTR
  /\ dcount[1] = 1

\* C16: clear returns, invokes the destructor (if set) once on every
\* element in ascending index order, sets the length to 0 and leaves
\* capacity, storage and error state as they were.
C16_ClearEmptiesVector ==
  [][(last'.op = "clear")
       => /\ pc' = "idle"
          /\ DtorEvents(last'.trace)
               = (IF v.on_free
                    THEN [i \in 1 .. cvec_size(v) |-> DtorEvent(i - 1, cvec_get(v, i - 1))]
                    ELSE << >>)
          /\ cvec_size(v') = 0
          /\ cvec_cap(v') = cvec_cap(v)
          /\ v'.data = v.data
          /\ v'.block = v.block
          /\ cvec_error(v') = cvec_error(v)]_vars

\* The vector owns a block of exactly capacity slots.
OwnsBlock(w) == w.data # NULL /\ Len(w.block) = cvec_cap(w)

\* C17: a reserve(n) that succeeds on a vector of length <= n makes the
\* capacity exactly n and leaves the length, the elements and the error
\* state as they were; each push_back that follows while length < capacity
\* reallocates nothing (capacity and error state stay), and appends its
\* element after the others.  So the n - length calls of push_back after
\* the reserve fill the block in order.
C17_ReserveThenPushBack ==
  [][/\ (last'.op = "reserve" /\ last'.alloc = "ok")
          => /\ pc' = "idle"
             /\ cvec_cap(v') = last'.pos
             /\ OwnsBlock(v')
             /\ cvec_size(v') = cvec_size(v)
             /\ \A i \in 0 .. cvec_size(v) - 1 : cvec_get(v', i) = cvec_get(v, i)
             /\ cvec_error(v') = cvec_error(v)
     /\ (last'.op = "push_back" /\ OwnsBlock(v) /\ cvec_size(v) < cvec_cap(v))
          => /\ pc' = "idle"
             /\ last'.alloc = "none"
             /\ cvec_cap(v') = cvec_cap(v)
             /\ OwnsBlock(v')
             /\ cvec_error(v') = cvec_error(v)
             /\ cvec_size(v') = cvec_size(v) + 1
             /\ \A i \in 0 .. cvec_size(v) - 1 : cvec_get(v', i) = cvec_get(v, i)
             /\ cvec_get(v', cvec_size(v)) = nextItem + 1]_vars

\* reserve(2) and the pushes of 1 and 2 that fill the block: capacity is
\* still 2, no error, and the accessors give what the scenario of
\* example1.c expects.
C17_Witness ==
  /\ last.op = "push_back"
  /\ last.alloc = "none"
  /\ last.afterPush
  /\ pc = "idle"
  /\ cvec_cap(v) = 2
  /\ cvec_size(v) = 2
  /\ cvec_error(v) = CVEC_EOK
  /\ cvec_front(v) = 1
  /\ cvec_back(v) = 2
  /\ cvec_get(v, 1) = 2
  /\ cvec_at(v, 200) = SentinelValue

\* C18: push_back, push_front and insert call realloc exactly when length =
\* capacity at the time of the call; the capacity of the block they get is
\* 3 when the old capacity was 0 and 2 * old + 1 otherwise; when length <
\* capacity they leave capacity and error state as they were; after an add
\* that did not fail, capacity >= length.
C18_GrowthPolicy ==
  [][(last'.op \in AddOps)
       => /\ (last'.alloc # "none") <=> (cvec_size(v) = cvec_cap(v))
          /\ (last'.alloc = "ok")
               => cvec_cap(v') = (IF cvec_cap(v) = 0 THEN 3 ELSE 2 * cvec_cap(v) + 1)
          /\ (cvec_size(v) < cvec_cap(v))
               => (cvec_cap(v') = cvec_cap(v) /\ cvec_error(v') = cvec_error(v))
          /\ (last'.alloc \in {"ok", "none"} /\ pc' = "idle")
               => (cvec_size(v') = cvec_size(v) + 1 /\ cvec_cap(v') >= cvec_size(v'))]_vars

\* The fourth add, an insert, found the block of 3 slots full and grew it
\* to 7.
C18_Witness ==
  /\ last.op = "insert"
  /\ last.alloc = "ok"
  /\ pc = "idle"
  /\ cvec_size(v) = 4
  /\ cvec_cap(v) = 7
  /\ Len(v.block) = 7

\* C19: a shrink_to_fit with capacity > length whose reallocation does not
\* fail (for length 0, realloc may answer the request for zero bytes with
\* a block or by releasing the old one) makes the capacity exactly the
\* length and leaves length, elements and error state as they were; with
\* capacity = length it changes nothing.
C19_ShrinkToFit ==
  [][(last'.op = "shrink_to_fit")
       => /\ (cvec_cap(v) > cvec_size(v) /\ last'.alloc \in {"ok", "zero"})
               => /\ pc' = "idle"
                  /\ cvec_cap(v') = cvec_size(v)
                  /\ cvec_size(v') = cvec_size(v)
                  /\ \A i \in 0 .. cvec_size(v) - 1 : cvec_get(v', i) = cvec_get(v, i)
                  /\ cvec_error(v') = cvec_error(v)
          /\ (cvec_cap(v) = cvec_size(v))
               => (v' = v /\ last'.alloc = "none")]_vars

\* C20: on a vector that owns its block, for 0 <= p < length, erase(p)
\* invokes the destructor (if set) once, on the element at p, takes one from
\* the length, leaves the capacity, and gives the old elements [0, p)
\* followed by the old elements (p, length) in their order.
C20_EraseShiftsTail ==
  [][(last'.op = "erase" /\ last'.pos < cvec_size(v) /\ OwnsBlock(v))
       => LET p == last'.pos
          IN /\ pc' = "idle"
             /\ DtorEvents(last'.trace)
                  = (IF v.on_free THEN <<DtorEvent(p, cvec_get(v, p))>> ELSE << >>)
             /\ cvec_size(v') = cvec_size(v) - 1
             /\ cvec_cap(v') = cvec_cap(v)
             /\ \A i \in 0 .. cvec_size(v') - 1 :
                  cvec_get(v', i) = (IF i < p THEN cvec_get(v, i) ELSE cvec_get(v, i + 1))]_vars

\* C21: a push_front(x) that does not fail on a vector holding e0 .. e(k-1)
\* gives x, e0, .., e(k-1): x is at index 0, every element that was there
\* is one index higher with its value, and the length is k + 1.
C21_PushFrontShiftsAll ==
  [][(last'.op = "push_front" /\ last'.alloc \in {"ok", "none"} /\ pc' = "idle")
       => /\ cvec_size(v') = cvec_size(v) + 1
          /\ cvec_get(v', 0) = nextItem + 1
          /\ \A i \in 0 .. cvec_size(v) - 1 : cvec_get(v', i + 1) = cvec_get(v, i)]_vars

\* C22: on a vector that owns its block and holds e0 .. e(k-1), k >= 1,
\* pop_front invokes the destructor (if set) once, on e0, and gives
\* e1, .., e(k-1) in order, with length k - 1 and the capacity as it was.
C22_PopFrontShiftsAll ==
  [][(last'.op = "pop_front" /\ cvec_size(v) > 0 /\ OwnsBlock(v))
       => /\ pc' = "idle"
          /\ DtorEvents(last'.trace)
               = (IF v.on_free THEN <<DtorEvent(0, cvec_get(v, 0))>> ELSE << >>)
          /\ cvec_size(v') = cvec_size(v) - 1
          /\ cvec_cap(v') = cvec_cap(v)
          /\ \A i \in 0 .. cvec_size(v') - 1 : cvec_get(v', i) = cvec_get(v, i + 1)]_vars

\* The calls that may reallocate.
AllocOps == AddOps \cup {"reserve", "shrink_to_fit"}

\* C23: the error state becomes OUT_OF_MEMORY only in a push_back,
\* push_front, insert, reserve or shrink_to_fit whose reallocation failed,
\* and goes back to OK only in an initialization or a teardown; every
\* other call leaves it as it was.
C23_ErrorChangesOnlyOnFailure ==
  [][(cvec_error(v') # cvec_error(v))
       => IF cvec_error(v') = CVEC_EOOM
            THEN last'.op \in AllocOps /\ last'.alloc = "fail"
            ELSE cvec_error(v') = CVEC_EOK /\ last'.op \in {"init", "free"}]_vars

\* The calls that move elements.
MoveOps == {"insert", "push_front", "erase", "erase_n", "pop_front"}

\* The memory moves of a trace, in order.
MoveEvents(tr) == SelectSeq(tr, LAMBDA ev : ev[1] = "move")

\* The first slot a move of the call reads, given the first slot it writes
\* and the number of elements the call removed.
MoveSource(op, dst, removed) ==
  IF op \in {"insert", "push_front"} THEN dst - 1 ELSE dst + removed

\* C24: on a vector that owns its block, every move of elements made by
\* insert, push_front, erase, erase_range and pop_front with arguments in
\* range is carried out and reads and writes only slots [0, capacity): the
\* slots read and the slots written both end at or before the capacity.
C24_MovesWithinCapacity ==
  [][(/\ last'.op \in MoveOps
      /\ OwnsBlock(v)
      /\ last'.alloc \in {"ok", "none"}
      /\ last'.op \in {"erase", "erase_n"} => last'.pos < cvec_size(v))
       => /\ pc' = "idle"
          /\ \A k \in 1 .. Len(MoveEvents(last'.trace)) :
               LET dst == MoveEvents(last'.trace)[k][2]
                   cnt == MoveEvents(last'.trace)[k][3]
                   removed == IF cvec_size(v) > cvec_size(v') THEN cvec_size(v) - cvec_size(v') ELSE 0
                   src == MoveSource(last'.op, dst, removed)
               IN cnt > 0 => /\ dst >= 0 /\ dst + cnt <= cvec_cap(v')
                             /\ src >= 0 /\ src + cnt <= cvec_cap(v')]_vars

=============================================================================
